---- MODULE Spec2Model ----
(***************************************************************************)
(* A model of tompltools (src/tompltools/__init__.py): the extension       *)
(* classifier io_file_to_bash_flag, the step functions produced by         *)
(* generate_job_function, and the two execution engines, submit_job and    *)
(* the callable returned by generate_queue_job_function.                   *)
(*                                                                         *)
(* A Python str is modelled as the sequence of its dot-separated           *)
(* components: "x.bam.gz" is <<"x", "bam", "gz">>, ".bam" is <<"", "bam">>,*)
(* "-b" is <<"-b">>.  No component holds a dot or a path separator.        *)
(*                                                                         *)
(* Three specifications share the variables:                               *)
(*   SpecClassify  one call of io_file_to_bash_flag;                       *)
(*   SpecJob       one call of a generated step function, through          *)
(*                 submit_job to its return;                               *)
(*   SpecEngine    two concurrent invocations, each of submit_job or of    *)
(*                 the queue job_function, on one file system.             *)
(***************************************************************************)
EXTENDS Integers, Sequences, FiniteSets, TLC

VARIABLES
    \* io_file_to_bash_flag called on its own
    file_name, file_type, flag_pc, flag_result,
    \* a step function made by generate_job_function
    job_type, extras, function_args, job_pc, job_result,
    \* the engines: one record per invocation, and the shared file system
    inv, files

classifyVars == <<file_name, file_type, flag_pc, flag_result>>
jobVars == <<job_type, extras, function_args, job_pc, job_result>>
engineVars == <<inv, files>>
vars == <<file_name, file_type, flag_pc, flag_result,
          job_type, extras, function_args, job_pc, job_result, inv, files>>

(***************************************************************************)
(* Bounds of the model.                                                    *)
(***************************************************************************)
\* most dot-suffixes a classified file name carries
MaxExts == 2
\* most characters of a scheduler diagnostic stream
MaxErrLen == 2
\* most positional arguments a step function is called with beyond its arity
MaxSurplus == 1

(***************************************************************************)
(* io_file_to_bash_flag                                                    *)
(***************************************************************************)
input_flags ==
    [e \in {".bam", ".fa", ".fasta", ".fastq", ".fq", ".gtf", ".bed",
            ".table", ".vcf", ".html", ".txt", ".Rds"} |->
        CASE e = ".bam" -> "b"
          [] e \in {".fa", ".fasta"} -> "f"
          [] e \in {".fastq", ".fq"} -> "-fq"
          [] e = ".gtf" -> "j"
          [] e = ".bed" -> "l"
          [] e = ".table" -> "t"
          [] e = ".vcf" -> "v"
          [] e \in {".html", ".txt", ".Rds"} -> "y"]

output_flags ==
    [e \in {".bam", ".bai", ".fa", ".fasta", ".fastq", ".fq", ".dict",
            ".fai", ".gtf", ".bed", ".pdf", ".table", ".vcf", ".html",
            ".txt", ".Rds"} |->
        CASE e = ".bam" -> "c"
          [] e = ".bai" -> "d"
          [] e \in {".fa", ".fasta"} -> "g"
          [] e \in {".fastq", ".fq"} -> "-ofq"
          [] e = ".dict" -> "h"
          [] e = ".fai" -> "i"
          [] e = ".gtf" -> "k"
          [] e = ".bed" -> "m"
          [] e = ".pdf" -> "r"
          [] e = ".table" -> "u"
          [] e = ".vcf" -> "w"
          [] e \in {".html", ".txt", ".Rds"} -> "z"]

\* os.path.splitext: the extension starts at the last dot, unless only dots
\* precede it (a leading-dot name has no extension).
splitext(p) ==
    LET n == Len(p)
    IN  IF n >= 2 /\ \E i \in 1..(n - 1) : p[i] # ""
        THEN [root |-> SubSeq(p, 1, n - 1), ext |-> "." \o p[n]]
        ELSE [root |-> p, ext |-> ""]

\* lines 81-83: the last extension, looking through one trailing '.gz'
file_ext_no_gz(name) == splitext(name).ext

file_ext_of(name) ==
    LET file_ext == splitext(name).ext
    IN  IF file_ext = ".gz"
        THEN splitext(splitext(name).root).ext
        ELSE file_ext

KeyError(ext, role) ==
    [raised |-> "KeyError", ext |-> ext, role |-> role, flag |-> "", name |-> <<>>]

Returned(flag, name) ==
    [raised |-> "", ext |-> "", role |-> "", flag |-> flag, name |-> name]

\* a call whose file_type is neither 'input' nor 'output' falls off the end of
\* the function and returns None
ReturnedNone == [raised |-> "", ext |-> "", role |-> "", flag |-> "", name |-> <<>>]

flag_lookup_swapped(name, ext, role) ==
    IF role = "input"
    THEN IF ext \notin DOMAIN output_flags
         THEN KeyError(ext, role)
         ELSE Returned("-" \o output_flags[ext], name)
    ELSE IF ext \notin DOMAIN input_flags
         THEN KeyError(ext, role)
         ELSE Returned("-" \o input_flags[ext], name)

\* lines 91-104: the table of the role, and the KeyError for an extension it
\* does not hold
flag_lookup(name, ext, role) ==
    IF role = "input"
    THEN IF ext \notin DOMAIN input_flags
         THEN KeyError(ext, role)
         ELSE Returned("-" \o input_flags[ext], name)
    ELSE IF role = "output"
    THEN IF ext \notin DOMAIN output_flags
         THEN KeyError(ext, role)
         ELSE Returned("-" \o output_flags[ext], name)
    ELSE ReturnedNone

io_file_to_bash_flag(name, role) == flag_lookup(name, file_ext_of(name), role)

\* file names: a stem (empty for a leading-dot name) and up to MaxExts suffixes
Stems == {"", "s"}
ExtTokens == {"bam", "bai", "fa", "fasta", "fastq", "fq", "dict", "fai", "gtf",
              "bed", "pdf", "table", "vcf", "html", "txt", "Rds", "gz", "foo"}
SeqsUpTo(S, n) == UNION {[1..k -> S] : k \in 0..n}
FileNames == {<<s>> \o t : s \in Stems, t \in SeqsUpTo(ExtTokens, MaxExts)}
Roles == {"input", "output"}

(***************************************************************************)
(* Python values a step function is called with: a str, or a list of       *)
(* values.  tompytools.flatten_list walks a list depth first and yields    *)
(* every element that is not itself a list; a str is never walked into.    *)
(***************************************************************************)
Str(t) == [tag |-> "str", s |-> t, items |-> <<>>]
List(l) == [tag |-> "list", s |-> <<>>, items |-> l]

RECURSIVE flatten_list(_)
flatten_list(l) ==
    IF l = <<>> THEN <<>>
    ELSE (IF Head(l).tag = "list" THEN flatten_list(Head(l).items)
          ELSE <<Head(l)>>) \o flatten_list(Tail(l))

\* lines 219-222, 233-236, 305-321: flatten the files, classify each in order
\* (the first unrecognised one raises), flatten the [flag, name] pairs
file_args(value, role) ==
    LET flat == flatten_list(<<value>>)
        res == [i \in 1..Len(flat) |-> io_file_to_bash_flag(flat[i].s, role)]
    IN  IF \E i \in 1..Len(flat) : res[i].raised # ""
        THEN [raised |-> "KeyError", args |-> <<>>]
        ELSE [raised |-> "",
              args |-> flatten_list(
                  [i \in 1..Len(flat) |->
                      List(<<Str(<<res[i].flag>>), Str(res[i].name)>>)])]

(***************************************************************************)
(* The engines.  Two invocations may run at once (the pipeline framework   *)
(* runs steps concurrently); they share the file system and nothing else.  *)
(***************************************************************************)
Procs == {1, 2}
JobNames == {"a", "b"}
\* the characters of a diagnostic stream: a letter and a decimal digit
Digits == {"7"}
ErrChars == {"x"} \cup Digits
ErrStreams == SeqsUpTo(ErrChars, MaxErrLen)
\* the random parts tempfile.mkstemp may pick
TmpChars == {"p", "q"}

Path(dir, name, id, kind) == [dir |-> dir, job_name |-> name, id |-> id, kind |-> kind]
NoPath == Path("", "", <<>>, "")

Idle ==
    [engine |-> "", pc |-> "idle", job_name |-> "", argv |-> <<>>,
     launched |-> 0, ran |-> FALSE, returncode |-> 0, err |-> <<>>,
     job_id |-> <<>>, out_file |-> NoPath, err_file |-> NoPath,
     created |-> {}, written |-> 0, mail_calls |-> 0, mail_status |-> "",
     result |-> ""]

EngineIdle == [p \in Procs |-> Idle]

\* an exception leaves the function: nothing after the raising line runs
Raise(r, exc) == [r EXCEPT !.pc = "done", !.result = exc]

\* lines 131-133: re.compile(b'\d+').search(err), then .group(0)
RECURSIVE digit_run(_)
digit_run(s) ==
    IF s = <<>> \/ Head(s) \notin Digits THEN <<>>
    ELSE <<Head(s)>> \o digit_run(Tail(s))

RECURSIVE job_regex_search(_)
job_regex_search_default(err) == [found |-> TRUE, group |-> digit_run(err)]

job_regex_search(err) ==
    IF err = <<>> THEN [found |-> FALSE, group |-> <<>>]
    ELSE IF Head(err) \in Digits THEN [found |-> TRUE, group |-> digit_run(err)]
    ELSE job_regex_search(Tail(err))

\* submit_job is entered (lines 111-112)
EnterSubmitJob(name, args) ==
    [Idle EXCEPT !.engine = "submit", !.pc = "salloc", !.job_name = name,
                 !.argv = args]

CallSubmitJob(p) ==
    /\ inv[p].pc = "idle"
    /\ \E name \in JobNames : inv' = [inv EXCEPT ![p] = EnterSubmitJob(name, <<>>)]
    /\ UNCHANGED <<classifyVars, jobVars, files>>

\* lines 119-129: salloc is started and waited for; Popen raises OSError when
\* the binary cannot be started
Salloc(p) ==
    /\ inv[p].pc = "salloc"
    /\ \/ inv' = [inv EXCEPT ![p] = Raise(inv[p], "OSError")]
       \/ \E rc \in {0, 1}, e \in ErrStreams :
            inv' = [inv EXCEPT ![p].launched = @ + 1, ![p].ran = TRUE,
                               ![p].returncode = rc, ![p].err = e,
                               ![p].pc = "job_id"]
    /\ UNCHANGED <<classifyVars, jobVars, files>>

\* lines 131-133: no match gives None, and None.group raises AttributeError
JobId(p) ==
    /\ inv[p].pc = "job_id"
    /\ LET m == job_regex_search(inv[p].err)
       IN  inv' = [inv EXCEPT ![p] =
                IF ~m.found THEN Raise(inv[p], "AttributeError")
                ELSE [inv[p] EXCEPT !.job_id = m.group, !.pc = "write_out"]]
    /\ UNCHANGED <<classifyVars, jobVars, files>>

\* open(path, 'wb') then f.write: open creates (or truncates) the file; either
\* call may raise OSError, the second with the file already there
WriteOutcomes == {"written", "open_failed", "write_failed"}

AfterWrite(r, path, outcome, next) ==
    LET c == [r EXCEPT !.created = IF outcome = "open_failed" THEN @
                                   ELSE @ \cup {path}]
    IN  IF outcome = "written"
        THEN [c EXCEPT !.written = @ + 1, !.pc = next]
        ELSE Raise(c, "OSError")

FilesAfterWrite(path, outcome) ==
    IF outcome = "open_failed" THEN files ELSE files \cup {path}

\* lines 135-137
WriteOut(p) ==
    /\ inv[p].pc = "write_out"
    /\ LET path == Path("ruffus", inv[p].job_name, inv[p].job_id, "out")
           r == [inv[p] EXCEPT !.out_file = path]
       IN  \E outcome \in WriteOutcomes :
             /\ inv' = [inv EXCEPT ![p] = AfterWrite(r, path, outcome, "write_err")]
             /\ files' = FilesAfterWrite(path, outcome)
    /\ UNCHANGED <<classifyVars, jobVars>>

\* lines 138-140
WriteErr(p) ==
    /\ inv[p].pc = "write_err"
    /\ LET path == Path("ruffus", inv[p].job_name, inv[p].job_id, "err")
           r == [inv[p] EXCEPT !.err_file = path]
       IN  \E outcome \in WriteOutcomes :
             /\ inv' = [inv EXCEPT ![p] = AfterWrite(r, path, outcome, "mail")]
             /\ files' = FilesAfterWrite(path, outcome)
    /\ UNCHANGED <<classifyVars, jobVars>>

\* lines 142-148 and 347-353: the mail binary is started with the two files
\* attached and waited for; its exit status is not read.  Popen raises
\* OSError when the binary cannot be started.
MailOutcomes == {"sent", "mail_nonzero", "launch_failed"}

AfterMail(r, outcome) ==
    LET c == [r EXCEPT !.mail_calls = @ + 1, !.mail_status = outcome]
    IN  IF outcome = "launch_failed" THEN Raise(c, "OSError")
        ELSE [c EXCEPT !.pc = "rm_out"]

Mail(p) ==
    /\ inv[p].pc = "mail"
    /\ \E outcome \in MailOutcomes :
         inv' = [inv EXCEPT ![p] = AfterMail(inv[p], outcome)]
    /\ UNCHANGED <<classifyVars, jobVars, files>>

\* os.remove raises FileNotFoundError for a path that is not there
AfterRemove(r, path, next) ==
    IF path \in files THEN [r EXCEPT !.pc = next]
    ELSE Raise(r, "FileNotFoundError")

\* lines 150 and 354
RemoveOut(p) ==
    /\ inv[p].pc = "rm_out"
    /\ inv' = [inv EXCEPT ![p] = AfterRemove(inv[p], inv[p].out_file, "rm_err")]
    /\ files' = files \ {inv[p].out_file}
    /\ UNCHANGED <<classifyVars, jobVars>>

\* lines 151 and 355
RemoveErr(p) ==
    /\ inv[p].pc = "rm_err"
    /\ inv' = [inv EXCEPT ![p] = AfterRemove(inv[p], inv[p].err_file, "assert")]
    /\ files' = files \ {inv[p].err_file}
    /\ UNCHANGED <<classifyVars, jobVars>>

\* lines 152-154 and 358-359
exit_check(r) ==
    IF r.returncode = 0
    THEN [r EXCEPT !.pc = "done", !.result = "returned"]
    ELSE Raise(r, "AssertionError")

AssertExit(p) ==
    /\ inv[p].pc = "assert"
    /\ inv' = [inv EXCEPT ![p] = exit_check(inv[p])]
    /\ UNCHANGED <<classifyVars, jobVars, files>>

(***************************************************************************)
(* generate_queue_job_function.job_function                                *)
(***************************************************************************)
QueueFiles == {Str(<<"x", "fq">>), List(<<Str(<<"y", "bam">>), Str(<<"b", "bai">>)>>)}

\* lines 302-325
queue_submit_args(input_files, output_files) ==
    LET i == file_args(input_files, "input")
        o == file_args(output_files, "output")
    IN  IF i.raised # "" THEN i
        ELSE IF o.raised # "" THEN o
        ELSE [raised |-> "",
              args |-> flatten_list(<<List(<<List(i.args), List(o.args)>>)>>)]

\* lines 297-325
CallQueueJob(p) ==
    /\ inv[p].pc = "idle"
    /\ \E name \in JobNames, i \in QueueFiles, o \in QueueFiles :
         LET a == queue_submit_args(i, o)
             r == [Idle EXCEPT !.engine = "queue", !.job_name = name]
         IN  inv' = [inv EXCEPT ![p] =
                 IF a.raised # "" THEN Raise(r, a.raised)
                 ELSE [r EXCEPT !.argv = a.args, !.pc = "popen"]]
    /\ UNCHANGED <<classifyVars, jobVars, files>>

\* lines 331-334: the script is started and waited for
Popen(p) ==
    /\ inv[p].pc = "popen"
    /\ \/ inv' = [inv EXCEPT ![p] = Raise(inv[p], "OSError")]
       \/ \E rc \in {0, 1} :
            inv' = [inv EXCEPT ![p].launched = @ + 1, ![p].ran = TRUE,
                               ![p].returncode = rc, ![p].pc = "mkstemp_out"]
    /\ UNCHANGED <<classifyVars, jobVars, files>>

\* tempfile.mkstemp creates a file under a name no existing file has (O_EXCL),
\* and raises FileExistsError, an OSError, when it finds none
FreeTmp(name, kind) ==
    {c \in TmpChars : Path("tmp", name, <<c>>, kind) \notin files}

\* lines 337-338
MkstempOut(p) ==
    /\ inv[p].pc = "mkstemp_out"
    /\ IF FreeTmp(inv[p].job_name, "out") = {}
       THEN /\ inv' = [inv EXCEPT ![p] = Raise(inv[p], "OSError")]
            /\ files' = files
       ELSE \E c \in FreeTmp(inv[p].job_name, "out") :
              LET path == Path("tmp", inv[p].job_name, <<c>>, "out")
              IN  /\ files' = files \cup {path}
                  /\ inv' = [inv EXCEPT ![p].out_file = path,
                                        ![p].created = @ \cup {path},
                                        ![p].pc = "mkstemp_err"]
    /\ UNCHANGED <<classifyVars, jobVars>>

\* lines 339-340
MkstempErr(p) ==
    /\ inv[p].pc = "mkstemp_err"
    /\ IF FreeTmp(inv[p].job_name, "err") = {}
       THEN /\ inv' = [inv EXCEPT ![p] = Raise(inv[p], "OSError")]
            /\ files' = files
       ELSE \E c \in FreeTmp(inv[p].job_name, "err") :
              LET path == Path("tmp", inv[p].job_name, <<c>>, "err")
              IN  /\ files' = files \cup {path}
                  /\ inv' = [inv EXCEPT ![p].err_file = path,
                                        ![p].created = @ \cup {path},
                                        ![p].pc = "tmp_write_out"]
    /\ UNCHANGED <<classifyVars, jobVars>>

\* lines 341-342
WriteTmpOut(p) ==
    /\ inv[p].pc = "tmp_write_out"
    /\ \E outcome \in WriteOutcomes :
         /\ inv' = [inv EXCEPT ![p] =
                AfterWrite(inv[p], inv[p].out_file, outcome, "tmp_write_err")]
         /\ files' = FilesAfterWrite(inv[p].out_file, outcome)
    /\ UNCHANGED <<classifyVars, jobVars>>

\* lines 343-344
WriteTmpErr(p) ==
    /\ inv[p].pc = "tmp_write_err"
    /\ \E outcome \in WriteOutcomes :
         /\ inv' = [inv EXCEPT ![p] =
                AfterWrite(inv[p], inv[p].err_file, outcome, "mail")]
         /\ files' = FilesAfterWrite(inv[p].err_file, outcome)
    /\ UNCHANGED <<classifyVars, jobVars>>

InitEngine ==
    /\ inv = EngineIdle /\ files = {}
    /\ file_name = <<"s">> /\ file_type = "input"
    /\ flag_pc = "off" /\ flag_result = ReturnedNone
    /\ job_type = "transform" /\ extras = FALSE /\ function_args = <<>>
    /\ job_pc = "off" /\ job_result = [raised |-> "", args |-> <<>>]

SubmitJobStep(p) ==
    \/ Salloc(p) \/ JobId(p) \/ WriteOut(p) \/ WriteErr(p)
    \/ Mail(p) \/ RemoveOut(p) \/ RemoveErr(p) \/ AssertExit(p)

QueueJobStep(p) ==
    \/ Popen(p) \/ MkstempOut(p) \/ MkstempErr(p)
    \/ WriteTmpOut(p) \/ WriteTmpErr(p)

NextEngine ==
    \E p \in Procs :
        \/ CallSubmitJob(p) \/ CallQueueJob(p)
        \/ SubmitJobStep(p) \/ QueueJobStep(p)

SpecEngine == InitEngine /\ [][NextEngine]_vars

(***************************************************************************)
(* generate_job_function and the job_function it returns                   *)
(***************************************************************************)
\* line 181
_allowed_job_types == {"transform", "originate", "download"}

\* lines 186-198: the parameters the shape declares
declared_args(jt, ex) ==
    (IF jt = "transform" THEN <<"input_files">> ELSE <<>>)
    \o <<"output_files">>
    \o (IF jt = "download" THEN <<"jgi_logon", "jgi_password">> ELSE <<>>)
    \o (IF ex THEN <<"extras">> ELSE <<>>)

\* lines 246-250
credential_args_swapped(logon, password) ==
    <<Str(<<"-p">>), password, Str(<<"-e">>), logon>>

credential_args(logon, password) ==
    <<Str(<<"-e">>), logon, Str(<<"-p">>), password>>

\* line 257: the extras argument is appended to submit_args as it is
extras_arg_dropped(value) == <<>>

extras_arg(value) == <<value>>

\* line 267
unused_ignored(rest) == FALSE

unused(rest) == Len(rest) > 0

Raised(exc) == [raised |-> exc, args |-> <<>>]

\* lines 209-271: pop the arguments from the left, build submit_args, then
\* flatten it.  list.pop(0) raises IndexError on an empty list.
job_function_args(jt, ex, args) ==
    LET hasIn == jt = "transform"
        hasCred == jt = "download"
        a1 == IF hasIn /\ args # <<>> THEN Tail(args) ELSE args
        a2 == IF a1 # <<>> THEN Tail(a1) ELSE a1
        a3 == IF hasCred /\ Len(a2) >= 2 THEN Tail(Tail(a2)) ELSE a2
        a4 == IF ex /\ a3 # <<>> THEN Tail(a3) ELSE a3
        i == IF hasIn THEN file_args(Head(args), "input")
             ELSE [raised |-> "", args |-> <<>>]
        o == file_args(Head(a1), "output")
    IN  IF hasIn /\ args = <<>> THEN Raised("IndexError")
        ELSE IF i.raised # "" THEN i
        ELSE IF a1 = <<>> THEN Raised("IndexError")
        ELSE IF o.raised # "" THEN o
        ELSE IF hasCred /\ Len(a2) < 2 THEN Raised("IndexError")
        ELSE IF ex /\ a3 = <<>> THEN Raised("IndexError")
        ELSE IF unused(a4) THEN Raised("ValueError")
        ELSE [raised |-> "",
              args |-> flatten_list(
                  (IF hasIn THEN <<List(i.args)>> ELSE <<>>)
                  \o <<List(o.args)>>
                  \o (IF hasCred THEN credential_args(a2[1], a2[2]) ELSE <<>>)
                  \o (IF ex THEN extras_arg(Head(a3)) ELSE <<>>))]

\* what a step function may be called with, parameter by parameter
FileValues ==
    {Str(<<"x", "fq">>), Str(<<"b", "bai">>), Str(<<"q">>), List(<<>>),
     List(<<Str(<<"x", "fq">>)>>),
     List(<<Str(<<"y", "bam">>), Str(<<"b", "bai">>)>>),
     List(<<Str(<<"z", "fa", "gz">>), Str(<<"y", "bam">>)>>),
     List(<<List(<<Str(<<"y", "bam">>), Str(<<"x", "fq">>)>>), Str(<<"z", "fa">>)>>),
     List(<<Str(<<"x", "fq">>), List(<<List(<<Str(<<"z", "fa">>)>>), Str(<<"y", "bam">>)>>)>>)}
LogonValues == {Str(<<"u">>), Str(<<"p">>)}
ExtrasValues ==
    {Str(<<"e1">>), List(<<>>), List(<<Str(<<"e1">>), Str(<<"x", "fq">>)>>),
     List(<<List(<<Str(<<"e2">>), Str(<<"e1">>)>>), Str(<<"e3">>)>>)}
SurplusValues == {Str(<<"u">>), List(<<>>)}

ValuesFor(param) ==
    CASE param \in {"input_files", "output_files"} -> FileValues
      [] param \in {"jgi_logon", "jgi_password"} -> LogonValues
      [] param = "extras" -> ExtrasValues
      [] OTHER -> SurplusValues

\* calls with too few, exactly enough, and up to MaxSurplus too many arguments
Calls(jt, ex) ==
    LET d == declared_args(jt, ex)
        param(k) == IF k <= Len(d) THEN d[k] ELSE "surplus"
    IN  UNION {{a \in [1..n -> FileValues \cup LogonValues \cup ExtrasValues
                                \cup SurplusValues] :
                    \A k \in 1..n : a[k] \in ValuesFor(param(k))} :
               n \in 0..(Len(d) + MaxSurplus)}

InitJob ==
    /\ job_type \in _allowed_job_types
    /\ extras \in BOOLEAN
    /\ function_args \in Calls(job_type, extras)
    /\ job_pc = "call" /\ job_result = [raised |-> "", args |-> <<>>]
    /\ inv = EngineIdle /\ files = {}
    /\ file_name = <<"s">> /\ file_type = "input"
    /\ flag_pc = "off" /\ flag_result = ReturnedNone

\* lines 204-285: the arguments are assembled and submit_job is entered
JobFunction ==
    /\ job_pc = "call"
    /\ LET r == job_function_args(job_type, extras, function_args)
       IN  /\ job_result' = r
           /\ IF r.raised # ""
              THEN job_pc' = "done" /\ inv' = inv
              ELSE /\ job_pc' = "submit_job"
                   /\ inv' = [inv EXCEPT ![1] = EnterSubmitJob("a", r.args)]
    /\ UNCHANGED <<classifyVars, job_type, extras, function_args, files>>

\* lines 278-286: submit_job has returned (print_job_submission only prints)
\* or raised, and what it raised leaves job_function
JobFunctionReturn ==
    /\ job_pc = "submit_job" /\ inv[1].pc = "done"
    /\ job_pc' = "done"
    /\ job_result' = [job_result EXCEPT
            !.raised = IF inv[1].result = "returned" THEN "" ELSE inv[1].result]
    /\ UNCHANGED <<classifyVars, job_type, extras, function_args, engineVars>>

NextJob == JobFunction \/ SubmitJobStep(1) \/ JobFunctionReturn

SpecJob == InitJob /\ [][NextJob]_vars

InitClassify ==
    /\ file_name \in FileNames
    /\ file_type \in Roles
    /\ flag_pc = "call"
    /\ flag_result = ReturnedNone
    /\ job_type = "transform" /\ extras = FALSE /\ function_args = <<>>
    /\ job_pc = "off" /\ job_result = [raised |-> "", args |-> <<>>]
    /\ inv = EngineIdle /\ files = {}

Classify ==
    /\ flag_pc = "call"
    /\ flag_result' = io_file_to_bash_flag(file_name, file_type)
    /\ flag_pc' = "done"
    /\ UNCHANGED <<file_name, file_type, jobVars, engineVars>>

NextClassify == Classify

SpecClassify == InitClassify /\ [][NextClassify]_vars

(***************************************************************************)
(* The flag table as documented (spec section 6), written out pair by pair.*)
(***************************************************************************)
DocumentedInput ==
    {<<".bam", "-b">>, <<".fa", "-f">>, <<".fasta", "-f">>, <<".fastq", "--fq">>,
     <<".fq", "--fq">>, <<".gtf", "-j">>, <<".bed", "-l">>, <<".table", "-t">>,
     <<".vcf", "-v">>, <<".html", "-y">>, <<".txt", "-y">>, <<".Rds", "-y">>}

DocumentedOutput ==
    {<<".bam", "-c">>, <<".bai", "-d">>, <<".fa", "-g">>, <<".fasta", "-g">>,
     <<".fastq", "--ofq">>, <<".fq", "--ofq">>, <<".dict", "-h">>, <<".fai", "-i">>,
     <<".gtf", "-k">>, <<".bed", "-m">>, <<".pdf", "-r">>, <<".table", "-u">>,
     <<".vcf", "-w">>, <<".html", "-z">>, <<".txt", "-z">>, <<".Rds", "-z">>}

Documented(role) == IF role = "input" THEN DocumentedInput ELSE DocumentedOutput

LastOf(name) == name[Len(name)]

\* the extension a name carries: its final dot-suffix, none for a name without
\* a dot and none for a name that only has dots in front of it (".bam")
NameExtension(name) ==
    IF Len(name) >= 2 /\ \E i \in 1..(Len(name) - 1) : name[i] # ""
    THEN "." \o LastOf(name) ELSE ""

\* C6: for every (role, extension) pair of the documented flag table the
\* classifier returns the documented token with the file name unchanged, and
\* for an extension the role's table does not list (a name without extension
\* included) it raises the unrecognised-extension KeyError and returns no flag.
C6_FlagTable ==
    (flag_pc = "done" /\ LastOf(file_name) # "gz") =>
        LET e == NameExtension(file_name)
        IN  IF \E pr \in Documented(file_type) : pr[1] = e
            THEN \E pr \in Documented(file_type) :
                    /\ pr[1] = e
                    /\ flag_result = Returned(pr[2], file_name)
            ELSE flag_result = KeyError(e, file_type)

C6_Witness ==
    /\ flag_pc = "done" /\ file_name = <<"s", "fq">> /\ file_type = "output"
    /\ flag_result = Returned("--ofq", <<"s", "fq">>)

\* C7: a name with one trailing '.gz' gets the flag token (or the error) of the
\* name without it, and a name ending in '.gz.gz' is classified by '.gz' and
\* raises the unrecognised-extension KeyError.
C7_GzSameAsPlain ==
    flag_pc = "done" =>
        /\ LastOf(file_name) # "gz" =>
                LET z == io_file_to_bash_flag(file_name \o <<"gz">>, file_type)
                IN  /\ z.raised = flag_result.raised
                    /\ z.flag = flag_result.flag
                    /\ z.ext = flag_result.ext
                    /\ z.raised = "" => z.name = file_name \o <<"gz">>
        /\ (/\ Len(file_name) >= 3 /\ file_name[1] # ""
            /\ LastOf(file_name) = "gz"
            /\ file_name[Len(file_name) - 1] = "gz") =>
                flag_result = KeyError(".gz", file_type)

C7_Witness ==
    /\ flag_pc = "done" /\ file_name = <<"s", "vcf", "gz">> /\ file_type = "output"
    /\ flag_result = Returned("-w", <<"s", "vcf", "gz">>)

(***************************************************************************)
(* The argument sequence a call is documented to hand to the engine.       *)
(***************************************************************************)
RECURSIVE Leaves(_)
\* the strings of a sequence of values, depth first, in the caller's order
Leaves(l) ==
    IF l = <<>> THEN <<>>
    ELSE (IF Head(l).tag = "str" THEN <<Head(l)>> ELSE Leaves(Head(l).items))
         \o Leaves(Tail(l))

\* a name with one trailing '.gz' taken off
Inner(name) ==
    IF Len(name) >= 2 /\ LastOf(name) = "gz"
    THEN SubSeq(name, 1, Len(name) - 1) ELSE name

Recognised(name, role) ==
    \E pr \in Documented(role) : pr[1] = NameExtension(Inner(name))

TokenOf(name, role) ==
    (CHOOSE pr \in Documented(role) : pr[1] = NameExtension(Inner(name)))[2]

RECURSIVE Pairs(_, _)
Pairs(leaves, role) ==
    IF leaves = <<>> THEN <<>>
    ELSE <<Str(<<TokenOf(Head(leaves).s, role)>>), Head(leaves)>>
         \o Pairs(Tail(leaves), role)

AllRecognised(value, role) ==
    \A i \in 1..Len(Leaves(<<value>>)) : Recognised(Leaves(<<value>>)[i].s, role)

Arity ==
    (CASE job_type = "transform" -> 2
       [] job_type = "originate" -> 1
       [] job_type = "download" -> 3)
    + (IF extras THEN 1 ELSE 0)

OutputAt == IF job_type = "transform" THEN 2 ELSE 1

FilesRecognised ==
    /\ job_type = "transform" => AllRecognised(function_args[1], "input")
    /\ AllRecognised(function_args[OutputAt], "output")

ExpectedFileArgs ==
    (IF job_type = "transform"
     THEN Pairs(Leaves(<<function_args[1]>>), "input") ELSE <<>>)
    \o Pairs(Leaves(<<function_args[OutputAt]>>), "output")

ExpectedCredentials ==
    IF job_type = "download"
    THEN <<Str(<<"-e">>), function_args[2], Str(<<"-p">>), function_args[3]>>
    ELSE <<>>

ExtrasLeaves == Leaves(<<function_args[Arity]>>)

\* C8: a call with as many arguments as the shape declares hands the engine,
\* in this order, the (flag, name) pairs of the input files (transform only),
\* the pairs of the output files, '-e', login, '-p', password (download only),
\* then the extras (when enabled); the files of each collection come in the
\* caller's order after depth-first flattening and an empty collection gives
\* nothing.  A file without a recognised extension raises instead.
C8_ArgumentOrder ==
    (job_pc # "call" /\ Len(function_args) = Arity) =>
        IF FilesRecognised
        THEN /\ inv[1].engine = "submit"
             /\ inv[1].argv = ExpectedFileArgs \o ExpectedCredentials
                              \o (IF extras THEN ExtrasLeaves ELSE <<>>)
        ELSE job_result.raised = "KeyError" /\ inv[1].engine = ""

C8_Witness ==
    /\ job_type = "transform" /\ ~extras
    /\ function_args = <<List(<<Str(<<"x", "fq">>)>>),
                         List(<<Str(<<"y", "bam">>), Str(<<"b", "bai">>)>>)>>
    /\ inv[1].launched = 1
    /\ inv[1].argv = <<Str(<<"--fq">>), Str(<<"x", "fq">>),
                       Str(<<"-c">>), Str(<<"y", "bam">>),
                       Str(<<"-d">>), Str(<<"b", "bai">>)>>

\* C9 as claimed: a call with more arguments than the shape declares always
\* fails with the unconsumed-arguments ValueError, before anything is launched.
C9_SurplusAlwaysUnconsumed ==
    (job_pc # "call" /\ Len(function_args) > Arity) =>
        /\ job_result.raised = "ValueError"
        /\ inv[1].launched = 0

\* C9 as amended: a call with more arguments than the shape declares fails
\* before submit_job is entered or anything launched; the arguments are taken
\* from the left, so the failure is the unconsumed-arguments ValueError when
\* every input and output file has a recognised extension, and the
\* unrecognised-extension KeyError otherwise.
C9_SurplusFailsBeforeLaunch ==
    (job_pc # "call" /\ Len(function_args) > Arity) =>
        /\ job_pc = "done"
        /\ inv[1].engine = "" /\ inv[1].launched = 0
        /\ job_result.raised =
              IF FilesRecognised THEN "ValueError" ELSE "KeyError"

C9_Witness ==
    /\ job_pc = "done" /\ job_type = "download" /\ extras
    /\ Len(function_args) = 5
    /\ function_args[1] = List(<<Str(<<"x", "fq">>)>>)
    /\ job_result.raised = "ValueError"
    /\ inv[1].launched = 0

\* C10 as claimed: the extras argument (here one that holds a string at all) is
\* the last argument handed on, as the caller supplied it, lists and their
\* nesting included.
C10_ExtrasVerbatim ==
    (inv[1].engine = "submit" /\ extras /\ ExtrasLeaves # <<>>) =>
        /\ inv[1].argv # <<>>
        /\ inv[1].argv[Len(inv[1].argv)] = function_args[Arity]

\* C10 as amended: with extras enabled the arguments handed on end with the
\* strings of the extras argument, depth first in the caller's order and each
\* unchanged (a str is one token, an empty list gives none), right after the
\* file and credential arguments.
C10_ExtrasFlattenedTail ==
    (inv[1].engine = "submit" /\ extras) =>
        LET n == Len(ExtrasLeaves)
            m == Len(inv[1].argv)
        IN  /\ m = Len(ExpectedFileArgs) + Len(ExpectedCredentials) + n
            /\ SubSeq(inv[1].argv, m - n + 1, m) = ExtrasLeaves

C10_Witness ==
    /\ extras /\ job_type = "originate"
    /\ function_args = <<Str(<<"x", "fq">>),
                         List(<<List(<<Str(<<"e2">>), Str(<<"e1">>)>>), Str(<<"e3">>)>>)>>
    /\ inv[1].launched = 1
    /\ inv[1].argv = <<Str(<<"--ofq">>), Str(<<"x", "fq">>),
                       Str(<<"e2">>), Str(<<"e1">>), Str(<<"e3">>)>>

(***************************************************************************)
(* The engines' claims.                                                    *)
(***************************************************************************)
Left(p) == inv[p].created \cap files

\* C1: when the external process ended with a non-zero exit code and both
\* artifacts were written, the invocation ends with the notifier called once,
\* both artifacts removed, and the non-zero-exit AssertionError raised.
C1_NotifyCleanThenNonZeroExit ==
    \A p \in Procs :
        (/\ inv[p].pc = "done" /\ inv[p].ran
         /\ inv[p].returncode # 0 /\ inv[p].written = 2) =>
            /\ inv[p].mail_calls = 1
            /\ Left(p) = {}
            /\ inv[p].result = "AssertionError"

\* C2: however an invocation ends, no artifact it created is still on disk.
C2_CleanupUnconditional ==
    \A p \in Procs : inv[p].pc = "done" => Left(p) = {}

\* C3: a failed notification (the mail binary not started, or ended non-zero)
\* does not change the outcome: a normal return for exit code 0, the
\* non-zero-exit AssertionError otherwise.
C3_MailFailureSwallowed ==
    \A p \in Procs :
        (inv[p].pc = "done" /\ inv[p].mail_status \in {"mail_nonzero", "launch_failed"}) =>
            inv[p].result =
                IF inv[p].returncode = 0 THEN "returned" ELSE "AssertionError"

Running(p) == inv[p].pc \notin {"idle", "done"}
Artifacts(p) == {inv[p].out_file, inv[p].err_file} \ {NoPath}

\* C4: two invocations of submit_job running at once never have an artifact
\* path in common.
C4_UniqueArtifactNames ==
    \A p, q \in Procs :
        (/\ p # q /\ inv[p].engine = "submit" /\ inv[q].engine = "submit"
         /\ Running(p) /\ Running(q)) =>
            Artifacts(p) \cap Artifacts(q) = {}

NoDigit(e) == \A k \in 1..Len(e) : e[k] \notin Digits

\* C5: when the scheduler's diagnostic stream holds no decimal digit,
\* submit_job ends with the job-id error (AttributeError from the failed
\* search) and has created no artifact.
C5_NoJobIdNoArtifacts ==
    \A p \in Procs :
        (inv[p].engine = "submit" /\ inv[p].ran /\ NoDigit(inv[p].err)) =>
            /\ inv[p].pc \in {"job_id", "done"}
            /\ inv[p].pc = "done" => inv[p].result = "AttributeError"
            /\ inv[p].created = {} /\ Left(p) = {}
            /\ inv[p].mail_calls = 0

C5_Witness ==
    \E p \in Procs :
        /\ inv[p].engine = "submit" /\ inv[p].pc = "done"
        /\ inv[p].err = <<"x">> /\ inv[p].returncode = 0
        /\ inv[p].result = "AttributeError"
        /\ inv[p].created = {}

====
